---- MODULE Spec2Model ----
(***************************************************************************)
(* Model of app.py: the ChemicalReactionSimulator class (the reaction      *)
(* ledger `reactions`, the derived table `reaction_df`, the product lookup *)
(* and the two external lookups) and the Streamlit script that drives it.  *)
(*                                                                         *)
(* Numbers.  Temperatures and pressures are floats in the program.  Here   *)
(* they are integers counting hundredths (25.0 degrees is 2500, 1.0 atm is *)
(* 100), and so are the two derived columns (a rate of 5.6 is 560, a yield *)
(* of 100 is 10000).  round(x, 2) is modelled on the exact value, ties to  *)
(* even.  The input sets below hold no value whose rate or yield falls on  *)
(* a tie at the third decimal, where the binary representation of the      *)
(* float would decide the direction; on every value used here the exact    *)
(* result and the float result agree to the last digit.                    *)
(***************************************************************************)
EXTENDS Integers, Sequences, FiniteSets, TLC

VARIABLES
    simulator,  \* the ChemicalReactionSimulator object: reactions, reaction_df
    calls,      \* history: the arguments of each add_reaction call on `simulator`
    ret,        \* the last operation: its name, argument, outcome and return value
    widgets,    \* the sidebar widget values Streamlit keeps between script runs
    shown,      \* the messages and elements the last script run put on the page
    session     \* history of the browser session: accepted submissions so far

vars == <<simulator, calls, ret, widgets, shown, session>>

(***************************************************************************)
(* Bounds of the model.                                                    *)
(***************************************************************************)
MaxReactions == 2       \* add_reaction calls on one instance
MaxAccepted == 3        \* accepted Add Reaction submissions counted in a session

(***************************************************************************)
(* Program constants (hundredths).                                         *)
(***************************************************************************)
AbsoluteZero == -27315      \* -273.15
DefaultTemperature == 2500  \* number_input(..., value=25.0)
DefaultPressure == 100      \* number_input(..., value=1.0)

(***************************************************************************)
(* Input values.                                                           *)
(***************************************************************************)
\* strings handed to predict_products: the five keys, and strings that differ
\* from a key in case, whitespace or reactant order, an unmapped pair, the
\* empty string
ReactantStrings ==
    { "H2 + O2", "N2 + H2", "C + O2", "Na + Cl2", "Fe + O2",
      "h2 + o2", "O2 + H2", "H2+O2", " H2 + O2", "H2 + O2 ", "X + Y", "" }

Arg(reactants, temperature, pressure, catalyst) ==
    [reactants |-> reactants, temperature |-> temperature,
     pressure |-> pressure, catalyst |-> catalyst]

\* argument tuples of add_reaction called on an instance directly (the class
\* itself validates nothing, so out-of-range values are among them)
AddInputs ==
    { Arg("H2 + O2", 10000, 200, ""),
      Arg("H2 + O2", 10000, 200, "Pt"),
      Arg("H2 + O2", 10000, 200, "None"),
      Arg("Na + Cl2", 30000, 500, "Pt"),
      Arg("Na + Cl2", 30000, 500, ""),
      Arg("X + Y", 2500, 100, ""),
      Arg("Fe + O2", 50000, 500, "Pt"),
      Arg("Fe + O2", 50000, 0, ""),
      Arg("h2 + o2", -27315, 0, "Fe"),
      Arg("N2 + H2", -27315, 0, ""),
      Arg("C + O2", -27316, -100, ""),
      Arg("C + O2", -30000, 100, "Pt") }

(***************************************************************************)
(* Helpers.                                                                *)
(***************************************************************************)
Min(a, b) == IF a <= b THEN a ELSE b

\* round(n / d * 0.01, 2) in hundredths: n / d rounded to the nearest integer,
\* ties to even (d > 0)
Round2(n, d) ==
    LET q == n \div d
        r == n % d
    IN  IF 2 * r > d \/ (2 * r = d /\ q % 2 = 1) THEN q + 1 ELSE q

(***************************************************************************)
(* pandas.DataFrame: a mapping from column names to equally long columns.  *)
(* pd.DataFrame() has no column at all.                                    *)
(***************************************************************************)
DataFrame == [c \in {} |-> <<>>]

NRows(df) == IF DOMAIN df = {} THEN 0 ELSE Len(df["Reactants"])

empty(df) == NRows(df) = 0

(***************************************************************************)
(* class ChemicalReactionSimulator                                         *)
(***************************************************************************)
ChemicalReactionSimulator == [reactions |-> <<>>, reaction_df |-> DataFrame]

rules ==
    ( "H2 + O2" :> "H2O" @@ "N2 + H2" :> "NH3" @@ "C + O2" :> "CO2" @@
      "Na + Cl2" :> "NaCl" @@ "Fe + O2" :> "Fe2O3" )

\* faulty variant: the lookup normalises its argument (case, blanks, order) first
Normalised(reactants) ==
    IF reactants \in {"h2 + o2", "O2 + H2", "H2+O2", " H2 + O2", "H2 + O2 "}
    THEN "H2 + O2" ELSE reactants

predict_products_normalising(reactants) ==
    IF Normalised(reactants) \in DOMAIN rules
    THEN rules[Normalised(reactants)] ELSE "Unknown"

predict_products(reactants) ==
    IF reactants \in DOMAIN rules THEN rules[reactants] ELSE "Unknown"

Reaction(reactants, products, temperature, pressure, catalyst) ==
    ( "Reactants" :> reactants @@ "Products" :> products @@
      "Temperature (°C)" :> temperature @@ "Pressure (atm)" :> pressure @@
      "Catalyst" :> catalyst )

\* faulty variant: a record with the same reactants is replaced, not kept
add_reaction_merging(self, reactants, temperature, pressure, catalyst) ==
    LET reaction == Reaction(reactants, predict_products(reactants), temperature,
                             pressure, IF catalyst # "" THEN catalyst ELSE "None")
        others == SelectSeq(self.reactions, LAMBDA r : r["Reactants"] # reactants)
    IN  [self EXCEPT !.reactions = Append(others, reaction)]

\* faulty variant: the empty catalyst is stored as it is
add_reaction_raw_catalyst(self, reactants, temperature, pressure, catalyst) ==
    [self EXCEPT !.reactions =
        Append(@, Reaction(reactants, predict_products(reactants), temperature,
                           pressure, catalyst))]

add_reaction(self, reactants, temperature, pressure, catalyst) ==
    LET products == predict_products(reactants)
        catalyst_ == IF catalyst # "" THEN catalyst ELSE "None"
        reaction == Reaction(reactants, products, temperature, pressure, catalyst_)
    IN  [self EXCEPT !.reactions = Append(@, reaction)]

has_catalyst(reaction) == reaction["Catalyst"] # "None"

\* faulty variant: the catalyst multiplier is applied to the temperature term only
rate_partial_multiplier(reaction) ==
    LET temp == reaction["Temperature (°C)"]
        pressure == reaction["Pressure (atm)"]
    IN  Round2(temp * 5 * (IF has_catalyst(reaction) THEN 12 ELSE 10)
               + pressure * 30 * 10, 1000)

\* round((temp * 0.05 + pressure * 0.3) * (1.2 if has_catalyst else 1.0), 2)
rate(reaction) ==
    LET temp == reaction["Temperature (°C)"]
        pressure == reaction["Pressure (atm)"]
    IN  Round2((temp * 5 + pressure * 30)
               * (IF has_catalyst(reaction) THEN 12 ELSE 10), 1000)

\* faulty variant: no clamp
yield_percent_unclamped(reaction) ==
    LET temp == reaction["Temperature (°C)"]
        pressure == reaction["Pressure (atm)"]
    IN  Round2(temp * 20 + pressure * 150
               + (IF has_catalyst(reaction) THEN 10 ELSE 0) * 10000, 100)

\* round(min(100, temp * 0.2 + pressure * 1.5 + (10 if has_catalyst else 0)), 2)
yield_percent(reaction) ==
    LET temp == reaction["Temperature (°C)"]
        pressure == reaction["Pressure (atm)"]
    IN  Round2(Min(100 * 10000,
                   temp * 20 + pressure * 150
                   + (IF has_catalyst(reaction) THEN 10 ELSE 0) * 10000), 100)

\* the dictionary `data` before the loop
data0 ==
    [c \in { "Reactants", "Products", "Temperature (°C)", "Pressure (atm)",
             "Catalyst", "Reaction Rate (mol/s)", "Yield (%)" } |-> <<>>]

\* one pass of the loop body: a row appended to every column
append_row(data, reaction) ==
    [c \in DOMAIN data |->
        IF c \in DOMAIN reaction THEN Append(data[c], reaction[c])
        ELSE IF c = "Reaction Rate (mol/s)" THEN Append(data[c], rate(reaction))
        ELSE IF c = "Yield (%)" THEN Append(data[c], yield_percent(reaction))
        ELSE data[c]]

RECURSIVE loop(_, _, _)
loop(data, reactions, i) ==
    IF i > Len(reactions) THEN data
    ELSE loop(append_row(data, reactions[i]), reactions, i + 1)

\* faulty variant: the columns of the previous table are kept and appended to
simulate_reactions_accumulating(self) ==
    [self EXCEPT !.reaction_df =
        loop(IF DOMAIN self.reaction_df = {} THEN data0 ELSE self.reaction_df,
             self.reactions, 1)]

simulate_reactions(self) ==
    [self EXCEPT !.reaction_df = loop(data0, self.reactions, 1)]

(***************************************************************************)
(* The external collaborators: what a lookup can do.                       *)
(***************************************************************************)
PubChemOutcomes == {"compounds", "no compounds", "raises"}
WikipediaOutcomes == {"summary", "raises"}

Return(value) == [kind |-> "return", value |-> value]
Raise(e) == [kind |-> "raise", value |-> e]

\* the mapping built from the first compound found
compound_info ==
    ( "IUPAC Name" :> "c.iupac_name"
   @@ "Molecular Formula" :> "c.molecular_formula"
   @@ "Molecular Weight" :> "c.molecular_weight"
   @@ "Canonical SMILES" :> "c.canonical_smiles"
   @@ "Is Likely a Solvent?" :> "Yes or Possibly No"
   @@ "Synonyms" :> "c.synonyms[:5]" )

\* faulty variant: only the empty answer is handled, an exception leaves the method
get_product_info_no_except(outcome) ==
    IF outcome = "no compounds" THEN Return([Error |-> "Compound not found."])
    ELSE IF outcome = "compounds" THEN Return(compound_info)
    ELSE Raise("str(e)")

get_product_info(outcome) ==
    IF outcome = "no compounds" THEN Return([Error |-> "Compound not found."])
    ELSE IF outcome = "compounds" THEN Return(compound_info)
    ELSE Return([Error |-> "str(e)"])

get_wikipedia_summary(outcome) ==
    IF outcome = "summary" THEN Return("wikipedia.summary(chemical, sentences=2)")
    ELSE Return("No Wikipedia summary found.")

(***************************************************************************)
(* Spec: the methods called in any order on one instance.                  *)
(***************************************************************************)
Op(op, arg, result) ==
    [op |-> op, arg |-> arg, kind |-> result.kind, value |-> result.value]

InitWidgets ==
    [reactants |-> "", temperature |-> DefaultTemperature,
     pressure |-> DefaultPressure, catalyst |-> ""]

Init ==
    /\ simulator = ChemicalReactionSimulator
    /\ calls = <<>>
    /\ ret = Op("__init__", "", Return("None"))
    /\ widgets = InitWidgets
    /\ shown = {}
    /\ session = [accepted |-> 0, button |-> FALSE, added |-> FALSE]

PredictProducts ==
    \E reactants \in ReactantStrings :
        /\ ret' = Op("predict_products", reactants, Return(predict_products(reactants)))
        /\ UNCHANGED <<simulator, calls, widgets, shown, session>>

AddReaction ==
    \E a \in AddInputs :
        /\ Len(calls) < MaxReactions
        /\ simulator' = add_reaction(simulator, a.reactants, a.temperature,
                                     a.pressure, a.catalyst)
        /\ calls' = Append(calls, a)
        /\ ret' = Op("add_reaction", "", Return("None"))
        /\ UNCHANGED <<widgets, shown, session>>

SimulateReactions ==
    /\ simulator' = simulate_reactions(simulator)
    /\ ret' = Op("simulate_reactions",
                 IF ret.op = "simulate_reactions" THEN "repeated" ELSE "",
                 Return("None"))
    /\ UNCHANGED <<calls, widgets, shown, session>>

GetProductInfo ==
    \E outcome \in PubChemOutcomes :
        /\ ret' = Op("get_product_info", outcome, get_product_info(outcome))
        /\ UNCHANGED <<simulator, calls, widgets, shown, session>>

GetWikipediaSummary ==
    \E outcome \in WikipediaOutcomes :
        /\ ret' = Op("get_wikipedia_summary", outcome, get_wikipedia_summary(outcome))
        /\ UNCHANGED <<simulator, calls, widgets, shown, session>>

Next ==
    \/ PredictProducts
    \/ AddReaction
    \/ SimulateReactions
    \/ GetProductInfo
    \/ GetWikipediaSummary

Spec == Init /\ [][Next]_vars

(***************************************************************************)
(* AppSpec: one browser session of the Streamlit app.  Streamlit runs the  *)
(* whole script, top to bottom, once when the page opens and again after   *)
(* every widget event; widget values persist between runs, module-level    *)
(* Python objects do not.  A button returns True only in the run its click *)
(* caused.                                                                 *)
(***************************************************************************)
AppReactants == {"", "H2 + O2", "X + Y"}
AppTemperatures == {-27316, -27315, 2500, 10000, 50000}
AppPressures == {-100, 0, 100, 200}
AppCatalysts == {"", "Pt", "None"}

\* faulty variant: the pressure check is missing
valid_input_temperature_only(temperature, pressure) ==
    ~(temperature < AbsoluteZero)

\* valid_input after the two range checks
valid_input(temperature, pressure) ==
    /\ ~(temperature < AbsoluteZero)
    /\ ~(pressure < 0)

sidebar_errors(temperature, pressure) ==
    (IF temperature < AbsoluteZero
     THEN {"sidebar.error: Temperature must be above absolute zero."} ELSE {})
    \cup
    (IF pressure < 0
     THEN {"sidebar.error: Pressure must be non-negative."} ELSE {})

\* faulty variant: the reactants field is not looked at
accepts_any_reactants(reactants_, valid_input_) == valid_input_

\* `if reactants and valid_input`
accepts(reactants_, valid_input_) == reactants_ # "" /\ valid_input_

\* the two calls of the accepted branch
add_and_simulate(self, w) ==
    simulate_reactions(
        add_reaction(self, w.reactants, w.temperature, w.pressure, w.catalyst))

\* what the page shows below the sidebar
display(self, pubchem, wiki) ==
    IF empty(self.reaction_df)
    THEN {"info: Add a reaction using the sidebar to see results."}
    ELSE { "dataframe", "download_button", "pyplot",
           IF "Error" \in DOMAIN get_product_info(pubchem).value
           THEN "json: Error" ELSE "json: compound",
           "info: " \o get_wikipedia_summary(wiki).value }

\* one run of the script with the widget values w
Script(w, button, pubchem, wiki) ==
    LET simulator_ == ChemicalReactionSimulator
        valid_input_ == valid_input(w.temperature, w.pressure)
        added == button /\ accepts(w.reactants, valid_input_)
        after == IF added THEN add_and_simulate(simulator_, w) ELSE simulator_
        handler == IF added THEN {"success: Reaction added and simulated."}
                   ELSE IF button /\ w.reactants = ""
                   THEN {"warning: Please enter reactants."}
                   ELSE {}
    IN  [simulator |-> after,
         added |-> added,
         shown |-> sidebar_errors(w.temperature, w.pressure) \cup handler
                   \cup display(after, pubchem, wiki)]

Run(w, button) ==
    \E pubchem \in PubChemOutcomes, wiki \in WikipediaOutcomes :
        LET run == Script(w, button, pubchem, wiki)
        IN  /\ run.added => session.accepted < MaxAccepted
            /\ simulator' = run.simulator
            /\ calls' = IF run.added THEN <<w>> ELSE <<>>
            /\ ret' = Op("script", "", Return("None"))
            /\ widgets' = w
            /\ shown' = run.shown
            /\ session' = [accepted |-> session.accepted + (IF run.added THEN 1 ELSE 0),
                           button |-> button, added |-> run.added]

AppInit ==
    /\ simulator = ChemicalReactionSimulator
    /\ calls = <<>>
    /\ ret = Op("script", "", Return("None"))
    /\ widgets = InitWidgets
    /\ shown = {"info: Add a reaction using the sidebar to see results."}
    /\ session = [accepted |-> 0, button |-> FALSE, added |-> FALSE]

EditReactants ==
    \E v \in AppReactants \ {widgets.reactants} :
        Run([widgets EXCEPT !.reactants = v], FALSE)

EditTemperature ==
    \E v \in AppTemperatures \ {widgets.temperature} :
        Run([widgets EXCEPT !.temperature = v], FALSE)

EditPressure ==
    \E v \in AppPressures \ {widgets.pressure} :
        Run([widgets EXCEPT !.pressure = v], FALSE)

EditCatalyst ==
    \E v \in AppCatalysts \ {widgets.catalyst} :
        Run([widgets EXCEPT !.catalyst = v], FALSE)

PressAddReaction ==
    \E w \in {widgets} : Run(w, TRUE)

\* the download button is on the page only below a non-empty table
PressDownload ==
    /\ "download_button" \in shown
    /\ Run(widgets, FALSE)

AppNext ==
    \/ EditReactants
    \/ EditTemperature
    \/ EditPressure
    \/ EditCatalyst
    \/ PressAddReaction
    \/ PressDownload

AppSpec == AppInit /\ [][AppNext]_vars

(***************************************************************************)
(* The properties.                                                         *)
(***************************************************************************)
Table == simulator.reaction_df

Ledger == simulator.reactions

\* the rows of the table, which are the rows of the first records of the ledger
Rows == 1..NRows(Table)

Valid(a) == a.temperature >= AbsoluteZero /\ a.pressure >= 0

\* C1: after N add_reaction calls and simulate_reactions on one instance the
\* table has exactly N rows (every column N entries), and row i carries the
\* reactants, product, temperature, pressure and catalyst of the i-th record
\* added, duplicates of a reactant string included.
C1_TableFollowsCalls ==
    ret.op = "simulate_reactions" =>
        /\ NRows(Table) = Len(calls)
        /\ Len(Ledger) = Len(calls)
        /\ \A c \in DOMAIN Table : Len(Table[c]) = Len(calls)
        /\ \A i \in 1..Len(calls) :
              /\ Table["Reactants"][i] = calls[i].reactants
              /\ Table["Temperature (°C)"][i] = calls[i].temperature
              /\ Table["Pressure (atm)"][i] = calls[i].pressure
              /\ Table["Products"][i] = Ledger[i]["Products"]
              /\ Table["Catalyst"][i] = Ledger[i]["Catalyst"]
              /\ Ledger[i]["Reactants"] = calls[i].reactants

C1_Witness ==
    /\ ret.op = "simulate_reactions"
    /\ Len(calls) = 2
    /\ calls[1].reactants = calls[2].reactants
    /\ calls[1].catalyst # calls[2].catalyst
    /\ NRows(Table) = 2

\* C2: predict_products returns the mapped product for each of the five keys
\* and "Unknown" for every other string (a key in another case, with other
\* blanks or with the reactants swapped included), and always returns.
C2_Expected(reactants) ==
    CASE reactants = "H2 + O2" -> "H2O"
      [] reactants = "N2 + H2" -> "NH3"
      [] reactants = "C + O2" -> "CO2"
      [] reactants = "Na + Cl2" -> "NaCl"
      [] reactants = "Fe + O2" -> "Fe2O3"
      [] OTHER -> "Unknown"

C2_PredictExact ==
    /\ ret.op = "predict_products" =>
          ret.kind = "return" /\ ret.value = C2_Expected(ret.arg)
    /\ \A i \in 1..Len(calls) :
          Ledger[i]["Products"] = C2_Expected(calls[i].reactants)

C2_Witness ==
    /\ ret.op = "predict_products"
    /\ ret.arg \in {"h2 + o2", "O2 + H2", "H2+O2"}
    /\ ret.value = "Unknown"

\* the rate and the yield of the formulas, with multiplier 1.2 and bonus 10
\* when `catalysed`
C3_Rate(a, catalysed) ==
    Round2((a.temperature * 5 + a.pressure * 30) * (IF catalysed THEN 12 ELSE 10), 1000)

C3_Yield(a, catalysed) ==
    Round2(Min(1000000, a.temperature * 20 + a.pressure * 150
                        + (IF catalysed THEN 100000 ELSE 0)), 100)

\* C3 as stated: for every valid triple the derived row has the rate and the
\* yield of the formulas with multiplier 1.2 and bonus 10 for every non-empty
\* catalyst input; ("H2 + O2", 100, 2, "") gives 5.6 and 23.0 and
\* ("Na + Cl2", 300, 5, "Pt") gives 19.8 and 100.0.
C3_AsStated ==
    \A i \in Rows :
        /\ Valid(calls[i]) =>
              /\ Table["Reaction Rate (mol/s)"][i] = C3_Rate(calls[i], calls[i].catalyst # "")
              /\ Table["Yield (%)"][i] = C3_Yield(calls[i], calls[i].catalyst # "")
        /\ calls[i] = Arg("H2 + O2", 10000, 200, "") =>
              Table["Reaction Rate (mol/s)"][i] = 560 /\ Table["Yield (%)"][i] = 2300
        /\ calls[i] = Arg("Na + Cl2", 30000, 500, "Pt") =>
              Table["Reaction Rate (mol/s)"][i] = 1980 /\ Table["Yield (%)"][i] = 10000

\* C3 amended: the multiplier is 1.2 and the bonus 10 when the catalyst input
\* is neither empty nor the string "None", and 1.0 and 0 otherwise;
\* ("H2 + O2", 100, 2, "") gives 5.6 and 23.0 and ("Na + Cl2", 300, 5, "Pt")
\* gives 19.8 and 77.5.
C3_RateAndYield ==
    \A i \in Rows :
        /\ Valid(calls[i]) =>
              /\ Table["Reaction Rate (mol/s)"][i]
                    = C3_Rate(calls[i], calls[i].catalyst \notin {"", "None"})
              /\ Table["Yield (%)"][i]
                    = C3_Yield(calls[i], calls[i].catalyst \notin {"", "None"})
        /\ calls[i] = Arg("H2 + O2", 10000, 200, "") =>
              Table["Reaction Rate (mol/s)"][i] = 560 /\ Table["Yield (%)"][i] = 2300
        /\ calls[i] = Arg("Na + Cl2", 30000, 500, "Pt") =>
              Table["Reaction Rate (mol/s)"][i] = 1980 /\ Table["Yield (%)"][i] = 7750

C3_Witness ==
    /\ NRows(Table) = 2
    /\ calls[1] = Arg("Na + Cl2", 30000, 500, "Pt")
    /\ calls[2] = Arg("H2 + O2", 10000, 200, "None")
    /\ Table["Yield (%)"][1] = 7750
    /\ Table["Reaction Rate (mol/s)"][2] = 560

\* C4: every row's yield is at most 100, whatever was passed to add_reaction.
C4_YieldAtMost100 ==
    \A i \in Rows : Table["Yield (%)"][i] <= 10000

C4_Witness ==
    \E i \in Rows :
        /\ calls[i].temperature * 20 + calls[i].pressure * 150 > 1000000
        /\ Table["Yield (%)"][i] = 10000

\* C5 as stated: across the interactions of a session the ledger only grows:
\* every record of the ledger, and its row of the table, is still there,
\* unchanged, after every later interaction.
C5_LedgerOnlyGrows ==
    [][ /\ Len(simulator'.reactions) >= Len(simulator.reactions)
        /\ \A i \in 1..Len(simulator.reactions) :
              simulator'.reactions[i] = simulator.reactions[i]
        /\ NRows(simulator'.reaction_df) >= NRows(simulator.reaction_df) ]_vars

\* C6: every stored record has a non-empty Catalyst: an empty input is stored
\* as "None" and its row is computed without catalyst (multiplier 1.0, bonus
\* 0); a non-empty input is stored unchanged.
C6_CatalystNormalised ==
    /\ \A i \in 1..Len(Ledger) :
          /\ Ledger[i]["Catalyst"] # ""
          /\ calls[i].catalyst = "" => Ledger[i]["Catalyst"] = "None"
          /\ calls[i].catalyst # "" => Ledger[i]["Catalyst"] = calls[i].catalyst
    /\ \A i \in Rows :
          calls[i].catalyst = "" =>
              /\ Table["Catalyst"][i] = "None"
              /\ Table["Reaction Rate (mol/s)"][i] = C3_Rate(calls[i], FALSE)
              /\ Table["Yield (%)"][i] = C3_Yield(calls[i], FALSE)

C6_Witness ==
    \E i \in Rows :
        /\ calls[i].catalyst = ""
        /\ Ledger[i]["Catalyst"] = "None"
        /\ C3_Rate(calls[i], FALSE) # C3_Rate(calls[i], TRUE)

\* C7: a press of Add Reaction with temperature < -273.15 or pressure < 0
\* calls add_reaction not at all: no record is created, ledger and table are
\* what they were, and the error of each failed check is shown; with exactly
\* -273.15 and exactly 0 (and reactants given) the submission is accepted.
C7_InvalidRejected ==
    [][ /\ (session'.button /\ ~Valid(widgets')) =>
              /\ ~session'.added
              /\ calls' = <<>>
              /\ simulator' = simulator
              /\ widgets'.temperature < AbsoluteZero =>
                    "sidebar.error: Temperature must be above absolute zero." \in shown'
              /\ widgets'.pressure < 0 =>
                    "sidebar.error: Pressure must be non-negative." \in shown'
        /\ ( /\ session'.button
             /\ widgets'.temperature = AbsoluteZero
             /\ widgets'.pressure = 0
             /\ widgets'.reactants # "" ) =>
              /\ session'.added
              /\ Len(simulator'.reactions) = 1
              /\ NRows(simulator'.reaction_df) = 1 ]_vars

C7_Witness ==
    /\ session.button
    /\ widgets.reactants # ""
    /\ widgets.pressure < 0
    /\ widgets.temperature >= AbsoluteZero
    /\ ~session.added
    /\ session.accepted > 0
    /\ "sidebar.error: Pressure must be non-negative." \in shown

\* C8: get_product_info returns a mapping with an "Error" key when the lookup
\* finds no compound or raises, get_wikipedia_summary returns "No Wikipedia
\* summary found." when the lookup raises, and neither call changes the
\* ledger or the table.
C8_LookupFailuresContained ==
    [][ /\ (ret'.op = "get_product_info" /\ ret'.arg \in {"no compounds", "raises"}) =>
              /\ ret'.kind = "return"
              /\ "Error" \in DOMAIN ret'.value
              /\ simulator' = simulator
        /\ (ret'.op = "get_wikipedia_summary" /\ ret'.arg = "raises") =>
              /\ ret'.kind = "return"
              /\ ret'.value = "No Wikipedia summary found."
              /\ simulator' = simulator ]_vars

C8_Witness ==
    /\ ret.op = "get_product_info"
    /\ ret.arg = "raises"
    /\ ret.kind = "return"
    /\ NRows(Table) = 2

\* C9: simulate_reactions leaves the ledger as it was, and called on a table
\* that is up to date (derived since the last add_reaction) it produces that
\* same table again.
C9_SimulateIdempotent ==
    [][ ret'.op = "simulate_reactions" =>
          /\ simulator'.reactions = simulator.reactions
          /\ ( \/ ret.op = "simulate_reactions"
               \/ (DOMAIN Table # {} /\ NRows(Table) = Len(Ledger)) ) =>
                simulator'.reaction_df = simulator.reaction_df ]_vars

C9_Witness ==
    /\ ret.op = "simulate_reactions"
    /\ ret.arg = "repeated"
    /\ NRows(Table) = 2

\* C10: a press of Add Reaction with the reactants field empty creates no
\* record and leaves ledger and table as they were, whatever the other
\* fields hold; a record exists after a run only if Add Reaction was pressed
\* with reactants given and both checks passed, and then the table shown is
\* the one derived from the ledger holding that record.
C10_EmptyReactantsRejected ==
    [][ /\ (session'.button /\ widgets'.reactants = "") =>
              /\ ~session'.added
              /\ calls' = <<>>
              /\ simulator' = simulator
        /\ Len(simulator'.reactions) > 0 =>
              /\ session'.button
              /\ widgets'.reactants # ""
              /\ Valid(widgets')
              /\ simulator'.reactions =
                    <<Reaction(widgets'.reactants, C2_Expected(widgets'.reactants),
                               widgets'.temperature, widgets'.pressure,
                               IF widgets'.catalyst = "" THEN "None"
                               ELSE widgets'.catalyst)>>
              /\ simulator'.reaction_df = loop(data0, simulator'.reactions, 1)
              /\ NRows(simulator'.reaction_df) = 1
              /\ "dataframe" \in shown' ]_vars

C10_Witness ==
    /\ session.button
    /\ widgets.reactants = ""
    /\ Valid(widgets)
    /\ widgets.catalyst = "Pt"
    /\ ~session.added
    /\ session.accepted > 0
    /\ "warning: Please enter reactants." \in shown

====
